---------------------------- MODULE Spec2Model ----------------------------
(***************************************************************************)
(* A model of the training orchestration core of dl4ds:                    *)
(*                                                                         *)
(*   - training_cgan (src/dl4ds/cgan.py), the adversarial epoch loop with  *)
(*     its periodic and terminal checkpoint.save calls;                    *)
(*   - Trainer.__init__ and SupervisedTrainer.{__init__, setup_datagen,    *)
(*     setup_model, run} (src/dl4ds/training_logic.py), executed by every  *)
(*     process of a Horovod process group.                                 *)
(*                                                                         *)
(* Left out, as they change nothing the model tracks: printing and timing, *)
(* the TensorBoard summaries, plotting, os.makedirs, and early stopping     *)
(* (early_stopping keeps its default, False).  training_cgan is called     *)
(* with model in {'rspc', 'rint'}.  Calls into TensorFlow, Horovod and the  *)
(* package's utils and dataloader are recorded in the order they are made   *)
(* (the field calls of a trainer).                                         *)
(*                                                                         *)
(* An optional Python value is a sequence: None is <<>> and a value x is   *)
(* Some(x) = <<x>>.  Exceptions end a run: the position becomes "raised"   *)
(* and the exception is kept.                                              *)
(***************************************************************************)
EXTENDS Integers, Sequences, FiniteSets, TLC

VARIABLES
    \* ---- training_cgan: arguments
    x_train_len,            \* x_train.shape[0]
    epochs,                 \* epochs
    checkpoints_frequency,  \* checkpoints_frequency (None or Some(int))
    \* ---- training_cgan: locals and effects
    cpc,                    \* position in training_cgan
    cerr,                   \* exception that ended training_cgan, or None
    epoch,                  \* loop variable of `for epoch in range(epochs)`
    i,                      \* loop variable of `for i in range(n_samples)`
    checkpoint_bound,       \* whether the local name `checkpoint` is bound
    last_losses,            \* gen_total_loss, gen_gan_loss, gen_l1_loss, disc_loss
    gentotal, gengan, genl1, disc,   \* the four loss lists
    n_steps,                \* number of train_step calls executed so far
    sampled,                \* indices i of the x_train[i] used so far in this epoch
    weights,                \* the trainable variables of both networks
    generator_gradients,    \* generator_gradients of the last train_step, or None
    discriminator_gradients, \* discriminator_gradients of the last train_step, or None
    snapshots,              \* checkpoint.save calls, in order
    losses_npy,             \* content of ./losses.npy, or None
    returned,               \* value returned by training_cgan, or None
    \* ---- SupervisedTrainer: the process group and its environment
    args,                   \* the constructor arguments, the same in every process
    hvd_size,               \* hvd.size(): number of processes of the group
    n_devices,              \* len(list_devices(...)) on the host
    self,                   \* self[rank]: the trainer object of process `rank`
    val_loss,               \* val_loss[e]: validation loss at the end of epoch e
    files                   \* checkpoint files and saved models written so far

cgan_vars == <<x_train_len, epochs, checkpoints_frequency, cpc, cerr, epoch, i,
               checkpoint_bound, last_losses, gentotal, gengan, genl1, disc,
               n_steps, snapshots, losses_npy, returned, sampled, weights,
               generator_gradients, discriminator_gradients>>

\* What only train_step changes.
step_vars == <<weights, generator_gradients, discriminator_gradients>>

trainer_vars == <<args, hvd_size, n_devices, self, val_loss, files>>

vars == <<cgan_vars, trainer_vars>>

None == <<>>
Some(x) == <<x>>
Val(o) == o[1]

-----------------------------------------------------------------------------
(* Bounds of the model *)

MaxEpochs == 12       \* epochs ranges over 0..MaxEpochs
MaxFreq == 5          \* checkpoints_frequency ranges over None, 1..MaxFreq
MaxExtraSamples == 1  \* x_train holds 0..N_SAMPLES+MaxExtraSamples samples
MaxGroup == 2         \* hvd.size() ranges over 1..MaxGroup
MaxFitEpochs == 2     \* SupervisedTrainer epochs range over 1..MaxFitEpochs
MaxValLoss == 2       \* validation losses range over 1..MaxValLoss
MaxRate == 2          \* learning rates range over 1..MaxRate (units of 1e-4)
MaxScale == 2         \* scale ranges over 1..MaxScale
MaxPatch == 3         \* patch_size ranges over None, 1..MaxPatch
MaxBatch == 2         \* batch_size ranges over 1..MaxBatch
MaxDevices == 2        \* the host lists 1..MaxDevices devices
MaxRecalls == 2        \* the caller invokes at most MaxRecalls methods again
MaxStepsPerEpoch == 4  \* steps_per_epoch ranges over None, 1..MaxStepsPerEpoch

(* Program constants *)

N_SAMPLES == 10       \* n_samples = 10 #x_train.shape[0]

-----------------------------------------------------------------------------
(* training_cgan *)

\* No process group exists while training_cgan is studied.
TrainerIdle ==
    /\ args = None
    /\ hvd_size = 0
    /\ n_devices = 0
    /\ self = <<>>
    /\ val_loss = <<>>
    /\ files = {}

\* What a single checkpoint.save stores: the tf.train.Checkpoint of lines 145-147.
CheckpointContents ==
    {"generator_optimizer", "discriminator_optimizer", "generator", "discriminator"}

\* checkpoint.save(file_prefix=checkpoint_prefix): one more snapshot, taken
\* after `done` completed epochs and n_steps training steps.
CheckpointSave(snaps, done, final) ==
    Append(snaps, [after |-> done, steps |-> n_steps, final |-> final,
                   contents |-> CheckpointContents])

\* (epoch + 1) % checkpoints_frequency == 0
CadenceHitZeroBased(e, f) == e % f = 0
CadenceHit(e, f) == (e + 1) % f = 0

\* generator.trainable_variables and discriminator.trainable_variables.
GeneratorVariables == {"generator/kernel", "generator/bias"}
DiscriminatorVariables == {"discriminator/kernel", "discriminator/bias"}

\* The variables as built at lines 126-135: no update applied yet.
InitialWeights ==
    [v \in GeneratorVariables \cup DiscriminatorVariables |->
        [version |-> 0, by |-> "initializer", grad |-> None]]

\* The values of all variables that a forward pass under a tape reads.
Versions(w) == [v \in DOMAIN w |-> w[v].version]

\* tape.gradient(loss, variables): one gradient per listed variable, of the
\* loss of the forward pass recorded at the values w.
Gradient(loss, variables, w) ==
    [v \in variables |-> [loss |-> loss, at |-> Versions(w)]]

\* Lines 79-80.
GeneratorGradients(w) == Gradient("gen_total_loss", GeneratorVariables, w)

\* Lines 81-82.
DiscriminatorGradientsOfAllVariables(w) ==
    Gradient("disc_loss", GeneratorVariables \cup DiscriminatorVariables, w)
DiscriminatorGradients(w) == Gradient("disc_loss", DiscriminatorVariables, w)

\* optimizer.apply_gradients(zip(gradients, variables)).
apply_gradients(optimizer, gradients, variables, w) ==
    [v \in DOMAIN w |->
        IF v \in variables
        THEN [version |-> w[v].version + 1, by |-> optimizer,
              grad |-> Some(gradients[v])]
        ELSE w[v]]

\* train_step, lines 69-87: both gradient sets are taken from the tapes of
\* the one forward pass, then each optimizer applies its own.
train_step(w) ==
    LET generator_grads == GeneratorGradients(w)
        discriminator_grads == DiscriminatorGradients(w)
    IN apply_gradients("discriminator_optimizer", discriminator_grads,
                       DiscriminatorVariables,
                       apply_gradients("generator_optimizer", generator_grads,
                                       GeneratorVariables, w))

\* Line 181: np.array((gentotal, gengan, genl1, disc)), one row per list.
LossesArrayOfGenerator(total, gan, l1, d) == <<total, gan, l1>>
LossesArray(total, gan, l1, d) == <<total, gan, l1, d>>

\* The four scalars returned by train_step for sample i of epoch e.
TrainStepLosses(e, s) ==
    [gen_total_loss |-> <<"gen_total_loss", e, s>>,
     gen_gan_loss   |-> <<"gen_gan_loss", e, s>>,
     gen_l1_loss    |-> <<"gen_l1_loss", e, s>>,
     disc_loss      |-> <<"disc_loss", e, s>>]

\* `for epoch in range(epochs)`: enter the body or leave the loop.
EpochLoopHead(e) == IF e < epochs THEN "steps" ELSE "final_save"

CganInit ==
    /\ x_train_len \in 0..(N_SAMPLES + MaxExtraSamples)
    /\ epochs \in 0..MaxEpochs
    /\ checkpoints_frequency \in {None} \cup {Some(f) : f \in 1..MaxFreq}
    /\ cpc = "start"
    /\ cerr = None
    /\ epoch = 0
    /\ i = 0
    /\ checkpoint_bound = FALSE
    /\ last_losses = None
    /\ gentotal = <<>> /\ gengan = <<>> /\ genl1 = <<>> /\ disc = <<>>
    /\ n_steps = 0
    /\ snapshots = <<>>
    /\ losses_npy = None
    /\ returned = None
    /\ sampled = <<>>
    /\ weights = InitialWeights
    /\ generator_gradients = None
    /\ discriminator_gradients = None
    /\ TrainerIdle

\* Lines 109-152: lists, networks, optimizers, the conditional creation of
\* `checkpoint`, and the first test of the epoch loop.
CganSetup ==
    /\ cpc = "start"
    /\ checkpoint_bound' = (checkpoints_frequency # None)
    /\ epoch' = 0
    /\ i' = 0
    /\ cpc' = EpochLoopHead(0)
    /\ UNCHANGED <<trainer_vars, step_vars, sampled, x_train_len, epochs, checkpoints_frequency, cerr, last_losses,
                   gentotal, gengan, genl1, disc, n_steps, snapshots,
                   losses_npy, returned>>

\* Lines 154-164: one iteration of `for i in range(n_samples)`; x_train[i]
\* raises IndexError when x_train holds no sample i.
TrainStep ==
    /\ cpc = "steps"
    /\ i < N_SAMPLES
    /\ IF i >= x_train_len
       THEN /\ cpc' = "raised"
            /\ cerr' = Some("IndexError")
            /\ UNCHANGED <<i, last_losses, n_steps, sampled, step_vars>>
       ELSE /\ sampled' = Append(sampled, i)
            /\ generator_gradients' = Some(GeneratorGradients(weights))
            /\ discriminator_gradients' = Some(DiscriminatorGradients(weights))
            /\ weights' = train_step(weights)
            /\ last_losses' = Some(TrainStepLosses(epoch, i))
            /\ n_steps' = n_steps + 1
            /\ i' = i + 1
            /\ UNCHANGED <<cpc, cerr>>
    /\ UNCHANGED <<trainer_vars, x_train_len, epochs, checkpoints_frequency, epoch,
                   checkpoint_bound, gentotal, gengan, genl1, disc, snapshots,
                   losses_npy, returned>>

\* Lines 166-178 and the next test of the epoch loop: the epoch's last losses
\* are appended, and a snapshot is saved on the cadence.
EpochEnd ==
    /\ cpc = "steps"
    /\ i = N_SAMPLES
    /\ gentotal' = Append(gentotal, Val(last_losses).gen_total_loss)
    /\ gengan' = Append(gengan, Val(last_losses).gen_gan_loss)
    /\ genl1' = Append(genl1, Val(last_losses).gen_l1_loss)
    /\ disc' = Append(disc, Val(last_losses).disc_loss)
    /\ snapshots' = IF checkpoints_frequency # None
                       /\ CadenceHit(epoch, Val(checkpoints_frequency))
                    THEN CheckpointSave(snapshots, epoch + 1, FALSE)
                    ELSE snapshots
    /\ epoch' = epoch + 1
    /\ i' = 0
    /\ sampled' = <<>>
    /\ cpc' = EpochLoopHead(epoch + 1)
    /\ UNCHANGED <<trainer_vars, step_vars, x_train_len, epochs, checkpoints_frequency, cerr,
                   checkpoint_bound, last_losses, n_steps, losses_npy, returned>>

\* Line 179: checkpoint.save after the loop, whatever checkpoints_frequency
\* is; the name `checkpoint` is unbound when line 142 skipped its creation.
FinalSave ==
    /\ cpc = "final_save"
    /\ IF checkpoint_bound
       THEN /\ snapshots' = CheckpointSave(snapshots, epochs, TRUE)
            /\ cpc' = "persist"
            /\ UNCHANGED cerr
       ELSE /\ cpc' = "raised"
            /\ cerr' = Some("UnboundLocalError")
            /\ UNCHANGED snapshots
    /\ UNCHANGED <<trainer_vars, step_vars, sampled, x_train_len, epochs, checkpoints_frequency, epoch, i,
                   checkpoint_bound, last_losses, gentotal, gengan, genl1, disc,
                   n_steps, losses_npy, returned>>

\* Lines 181-182: np.save('./losses.npy', np.array((gentotal, gengan, genl1, disc))).
PersistLosses ==
    /\ cpc = "persist"
    /\ losses_npy' = Some(LossesArray(gentotal, gengan, genl1, disc))
    /\ cpc' = "return"
    /\ UNCHANGED <<trainer_vars, step_vars, sampled, x_train_len, epochs, checkpoints_frequency, cerr, epoch, i,
                   checkpoint_bound, last_losses, gentotal, gengan, genl1, disc,
                   n_steps, snapshots, returned>>

\* Lines 184-186: return generator.
CganReturn ==
    /\ cpc = "return"
    /\ returned' = Some("generator")
    /\ cpc' = "done"
    /\ UNCHANGED <<trainer_vars, step_vars, sampled, x_train_len, epochs, checkpoints_frequency, cerr, epoch, i,
                   checkpoint_bound, last_losses, gentotal, gengan, genl1, disc,
                   n_steps, snapshots, losses_npy>>

CganNext ==
    \/ CganSetup
    \/ TrainStep
    \/ EpochEnd
    \/ FinalSave
    \/ PersistLosses
    \/ CganReturn

SpecCgan == CganInit /\ [][CganNext]_vars

-----------------------------------------------------------------------------
(* Properties of training_cgan *)

\* The epochs (counted from 1) after which a snapshot has been written.
SnapshotEpochs == {snapshots[k].after : k \in 1..Len(snapshots)}

\* The statement after the epoch loop (line 179) has been executed.
FinalSaveExecuted == cpc \in {"persist", "return", "done"}

\* C1: with checkpoints_frequency = None no snapshot is written during the
\* epoch loop, and once the loop is over exactly one final snapshot of both
\* networks and both optimizers is written, after which the run persists the
\* loss history and returns the generator (it never ends in an exception at
\* the final save).
C1_FinalSnapshotWhenDisabled ==
    checkpoints_frequency = None =>
        /\ cpc \in {"start", "steps", "final_save"} => snapshots = <<>>
        /\ cerr # Some("UnboundLocalError")
        /\ FinalSaveExecuted =>
              /\ Len(snapshots) = 1
              /\ snapshots[1].final
              /\ snapshots[1].contents = CheckpointContents
        /\ cpc = "done" => losses_npy # None /\ returned = Some("generator")

\* C2: with checkpoints_frequency = f >= 1 and epochs = n >= 1, at every
\* moment the epochs after which a snapshot has been written are exactly the
\* multiples of f among the completed epochs, together with n once the final
\* save has run; a completed run has snapshots exactly after
\* {k \in 1..n : k mod f = 0} and n.  Every snapshot of epoch k is written
\* when exactly the N_SAMPLES training steps of each of the first k epochs
\* have run: after all steps of epoch k and before any step of epoch k+1.
C2_SnapshotCadence ==
    (checkpoints_frequency # None /\ epochs >= 1) =>
        LET f == Val(checkpoints_frequency) IN
        /\ SnapshotEpochs = {k \in 1..epoch : k % f = 0}
                               \cup (IF FinalSaveExecuted THEN {epochs} ELSE {})
        /\ cpc = "done" =>
              SnapshotEpochs = {k \in 1..epochs : k % f = 0} \cup {epochs}
        /\ \A k \in 1..Len(snapshots) :
              /\ snapshots[k].steps = N_SAMPLES * snapshots[k].after
              /\ \A j \in 1..k : snapshots[j].after <= snapshots[k].after

\* C2 witness: the run with f = 5 and n = 12 has completed, with snapshots
\* after epochs 5, 10 and 12.
C2_Witness ==
    /\ cpc = "done"
    /\ checkpoints_frequency = Some(5)
    /\ epochs = 12
    /\ SnapshotEpochs = {5, 10, 12}
    /\ Len(snapshots) = 3

\* The value of a variable after n steps when only `optimizer` updated it,
\* each time with the gradient of `loss` taken at the values the variables
\* had at the start of that step.
UpdatedOnlyBy(optimizer, loss, n) ==
    IF n = 0 THEN [version |-> 0, by |-> "initializer", grad |-> None]
    ELSE [version |-> n, by |-> optimizer,
          grad |-> Some([loss |-> loss,
                         at |-> [v \in GeneratorVariables \cup DiscriminatorVariables
                                    |-> n - 1]])]

\* C11: after any number of train_step executions, every generator variable
\* has been updated exactly once per step, by the generator optimizer with the
\* gradient of the generator total loss, and every discriminator variable by
\* the discriminator optimizer with the gradient of the discriminator loss;
\* each gradient set has entries for the variables of its own network only;
\* and both are taken at the values all variables had at the start of the
\* step, before either optimizer applied its update.
C11_SeparateGradients ==
    /\ \A v \in GeneratorVariables :
          weights[v] = UpdatedOnlyBy("generator_optimizer", "gen_total_loss", n_steps)
    /\ \A v \in DiscriminatorVariables :
          weights[v] = UpdatedOnlyBy("discriminator_optimizer", "disc_loss", n_steps)
    /\ generator_gradients # None =>
          DOMAIN Val(generator_gradients) = GeneratorVariables
    /\ discriminator_gradients # None =>
          DOMAIN Val(discriminator_gradients) = DiscriminatorVariables

\* C11 witness: two steps have run; the second one updated the discriminator
\* with a gradient taken before the generator's second update.
C11_Witness ==
    /\ n_steps = 2
    /\ weights["generator/kernel"].version = 2
    /\ weights["discriminator/kernel"].by = "discriminator_optimizer"
    /\ Val(weights["discriminator/kernel"].grad).at["generator/kernel"] = 1
    /\ DOMAIN Val(discriminator_gradients) = DiscriminatorVariables

\* The series of n entries whose entry k is the component `name` returned by
\* the last train_step (sample N_SAMPLES - 1) of the k-th epoch.
LastStepSeries(name, n) == [k \in 1..n |-> <<name, k - 1, N_SAMPLES - 1>>]

\* C14: the four loss lists always have one entry per finished epoch, so
\* they have equal length at the end of every epoch; and once a run of
\* n >= 1 epochs has completed, ./losses.npy holds exactly four series
\* (generator total, adversarial, reconstruction, discriminator, in this
\* order), each of length n, whose entry k is the value returned by the
\* last train_step of epoch k.
C14_LossHistory ==
    /\ Len(gentotal) = epoch /\ Len(gengan) = epoch
    /\ Len(genl1) = epoch /\ Len(disc) = epoch
    /\ (cpc = "done" /\ epochs >= 1) =>
          /\ losses_npy # None
          /\ Val(losses_npy) = <<LastStepSeries("gen_total_loss", epochs),
                                 LastStepSeries("gen_gan_loss", epochs),
                                 LastStepSeries("gen_l1_loss", epochs),
                                 LastStepSeries("disc_loss", epochs)>>

\* C14 witness: a run of three epochs has completed and persisted four
\* series of three entries.
C14_Witness ==
    /\ cpc = "done" /\ epochs = 3
    /\ losses_npy # None
    /\ Len(Val(losses_npy)) = 4
    /\ Len(Val(losses_npy)[4]) = 3
    /\ Val(losses_npy)[4][3] = <<"disc_loss", 2, N_SAMPLES - 1>>

\* C15: in every epoch train_step runs on x_train[0], x_train[1], ... in
\* index order, and a run of n epochs with checkpointing enabled, whatever
\* the number of samples x_train holds, ends only by returning the generator
\* after exactly N_SAMPLES * n training steps.
C15_TenStepsPerEpoch ==
    /\ sampled = [k \in 1..Len(sampled) |-> k - 1]
    /\ n_steps = N_SAMPLES * epoch + Len(sampled)
    /\ (checkpoints_frequency # None /\ cpc \in {"raised", "done"}) =>
          /\ cpc = "done"
          /\ n_steps = N_SAMPLES * epochs
          /\ returned = Some("generator")

-----------------------------------------------------------------------------
(* Trainer and SupervisedTrainer: values *)

\* Architecture names accepted by checkarg_model (utils.MODELS).
MODELS ==
    {"resnet_spc", "resnet_bi", "resnet_rc",
     "recurrent_resnet_spc", "recurrent_resnet_rc", "recurrent_resnet_bi"}

\* recmodels of setup_datagen.
recmodels_without_bi == {"recurrent_resnet_spc", "recurrent_resnet_rc"}
recmodels == {"recurrent_resnet_spc", "recurrent_resnet_rc", "recurrent_resnet_bi"}

\* The loss names of the if-chain of Trainer.__init__.
LOSSES == {"mae", "mse", "dssim", "dssim_mae", "dssim_mse", "dssim_mae_mse"}

\* The exceptions raised on a bad configuration.
ErrDevice == "ValueError: device not recognized"
ErrModel == "ValueError: model not recognized"
ErrLoss == "ValueError: loss not recognized"
ErrPatchSize == "ValueError: patch_size must be divisible by scale"
ErrTimeWindowUnsupported == "ValueError: time_window given, choose a model that handles a temporal dimension"
ErrTimeWindowMissing == "ValueError: the argument time_window must be a postive integer"
ConfigurationErrors ==
    {ErrDevice, ErrModel, ErrLoss, ErrPatchSize, ErrTimeWindowUnsupported,
     ErrTimeWindowMissing}

\* The exception of line 442 when the local name save_path is unbound.
ErrSavePathUnbound == "UnboundLocalError: save_path"

\* save_path = './saved_model/'
DefaultSavePath == "./saved_model/"

\* A learning rate: a Python float r, a Python int r (both in units of 1e-4),
\* or a tuple (r0, r1).
FloatRate(r) == [type |-> "float", values |-> <<r>>, boundaries |-> <<>>]
IntRate(r) == [type |-> "int", values |-> <<r>>, boundaries |-> <<>>]
TupleRate(r0, r1) == [type |-> "tuple", values |-> <<r0, r1>>, boundaries |-> <<>>]

\* PiecewiseConstantDecay(boundaries=[lr_decay_after], values=[lr[0], lr[1]])
PiecewiseConstantDecay(boundaries, values) ==
    [type |-> "PiecewiseConstantDecay", values |-> values, boundaries |-> boundaries]

\* The ranks of the process group.
Ranks == 0..(hvd_size - 1)

\* The trainer object of a process before __init__ has run.
NewTrainer ==
    [pc |-> "new", err |-> None, calls |-> <<>>,
     global_batch_size |-> None, running_on_first_worker |-> None,
     model |-> None, lossf |-> None,
     ds_train |-> None, ds_val |-> None, ds_test |-> None,
     learning_rate |-> None, steps_per_epoch |-> None,
     optimizer |-> None, callbacks |-> {}, best |-> None,
     epochs_done |-> 0, score |-> None,
     runs |-> 0,     \* number of times run() was entered
     recalls |-> 0]  \* number of methods the caller invoked after construction

Raise(s, e) == [s EXCEPT !.pc = "raised", !.err = Some(e)]

Call(s, names) == [s EXCEPT !.calls = @ \o names]

\* The statement reached when no exception was raised on the way.
Advance(s, pc) == IF s.pc = "raised" THEN s ELSE [s EXCEPT !.pc = pc]

-----------------------------------------------------------------------------
(* Trainer.__init__ *)

\* Lines 42-52: the attributes, then hvd.init().
HvdInit(s) ==
    Call([s EXCEPT !.model = Some([built |-> FALSE, name |-> args.model,
                                   n_channels |-> <<>>])],
         <<"hvd.init">>)

\* Lines 57-64: the resources configured for the device kind.
DeviceCalls ==
    IF args.device = "GPU"
    THEN (IF args.gpu_memory_growth THEN <<"set_gpu_memory_growth">> ELSE <<>>)
            \o <<"set_visible_gpus", "list_devices">>
    ELSE <<"list_devices">>

\* Lines 54-74: device set-up and the global batch size.
SetupDevices(s) ==
    IF s.pc = "raised" THEN s
    ELSE IF args.device \in {"GPU", "CPU"}
    THEN [Call(s, DeviceCalls) EXCEPT
             !.global_batch_size = Some(args.batch_size * n_devices)]
    ELSE Raise(s, ErrDevice)

\* Lines 76-80: the first Horovod worker, or CPU training.
IdentifyFirstWorker(s, rank) ==
    IF s.pc = "raised" THEN s
    ELSE [s EXCEPT !.running_on_first_worker =
             Some((args.device = "GPU" /\ rank = 0) \/ args.device = "CPU")]

\* checkarg_model(model, model_list) of utils.
checkarg_model(s) ==
    IF s.pc = "raised" THEN s
    ELSE IF args.model \in MODELS THEN s
    ELSE Raise(s, ErrModel)

\* Lines 87-101: the loss function.
ChooseLoss(s) ==
    IF s.pc = "raised" THEN s
    ELSE IF args.loss \in LOSSES
    THEN [s EXCEPT !.lossf = Some(args.loss)]
    ELSE Raise(s, ErrLoss)

\* Trainer.__init__, lines 42-101, in process `rank`.
TrainerInit(s, rank) ==
    ChooseLoss(checkarg_model(IdentifyFirstWorker(SetupDevices(HvdInit(s)), rank)))

\* SupervisedTrainer.__init__ lines 247-274: the attributes that run() later
\* reassigns.
StoreArguments(s) ==
    IF s.pc = "raised" THEN s
    ELSE [s EXCEPT !.learning_rate = Some(args.learning_rate),
                   !.steps_per_epoch = args.steps_per_epoch]

-----------------------------------------------------------------------------
(* SupervisedTrainer.setup_datagen *)

\* The network object that setup_model stores in self.model: it equals none of
\* the architecture names.
Network == "<network>"

\* What self.model compares as in `self.model in [...]` and `self.model == ...`:
\* the architecture name until setup_model replaces it by the network.
ModelAsName(s) == IF Val(s.model).built THEN Network ELSE Val(s.model).name

\* Line 283: patch_size must be divisible by scale.
CheckPatchSizeSkipped(s) == s
CheckPatchSize(s) ==
    IF s.pc = "raised" THEN s
    ELSE IF args.patch_size # None /\ Val(args.patch_size) % args.scale # 0
    THEN Raise(s, ErrPatchSize)
    ELSE s

\* Lines 286-292: time_window and the recurrent architectures.
CheckTimeWindow(s) ==
    IF s.pc = "raised" THEN s
    ELSE IF args.time_window # None /\ ModelAsName(s) \notin recmodels
    THEN Raise(s, ErrTimeWindowUnsupported)
    ELSE IF ModelAsName(s) \in recmodels /\ args.time_window = None
    THEN Raise(s, ErrTimeWindowMissing)
    ELSE s

\* Lines 294-302: datagen_params.
DataGeneratorParamsPerReplica(s) ==
    [scale |-> args.scale, batch_size |-> args.batch_size,
     patch_size |-> args.patch_size, model |-> ModelAsName(s),
     time_window |-> args.time_window]
DataGeneratorParams(s) ==
    [scale |-> args.scale, batch_size |-> Val(s.global_batch_size),
     patch_size |-> args.patch_size, model |-> ModelAsName(s),
     time_window |-> args.time_window]

\* Lines 303-305: the three data generators.
BuildDataGenerators(s) ==
    IF s.pc = "raised" THEN s
    ELSE [Call(s, <<"DataGenerator", "DataGenerator", "DataGenerator">>) EXCEPT
             !.ds_train = Some([data |-> "data_train", params |-> DataGeneratorParams(s)]),
             !.ds_val = Some([data |-> "data_val", params |-> DataGeneratorParams(s)]),
             !.ds_test = Some([data |-> "data_test", params |-> DataGeneratorParams(s)])]

\* setup_datagen, lines 280-305.
setup_datagen_build_first(s) ==
    CheckTimeWindow(CheckPatchSize(BuildDataGenerators(s)))
setup_datagen(s) ==
    BuildDataGenerators(CheckTimeWindow(CheckPatchSize(s)))

-----------------------------------------------------------------------------
(* SupervisedTrainer.setup_model *)

\* Lines 310-328: the number of channels, a pair for the recurrent models.
n_channels(name) ==
    LET opt(x) == IF x # None THEN 1 ELSE 0
        npred == IF args.predictors_train # None THEN Val(args.predictors_train) ELSE 0
    IN IF name \in {"resnet_spc", "resnet_bi", "resnet_rc"}
       THEN <<args.data_channels + opt(args.topography) + opt(args.landocean) + npred>>
       ELSE <<args.data_channels + npred, opt(args.topography) + opt(args.landocean)>>

\* setup_model, lines 307-348: self.model becomes the instantiated network;
\* no branch of lines 331-345 is taken when self.model is no architecture name.
setup_model(s) ==
    IF s.pc = "raised" THEN s
    ELSE LET name == ModelAsName(s) IN
         IF name \in MODELS
         THEN [Call(s, <<name>>) EXCEPT
                  !.model = Some([built |-> TRUE, name |-> name,
                                  n_channels |-> n_channels(name)])]
         ELSE s

-----------------------------------------------------------------------------
(* SupervisedTrainer.run *)

\* Lines 354-361: the learning rate handed to Adam.
ScaledLearningRate(lr) ==
    IF lr.type = "tuple"
    THEN PiecewiseConstantDecay(<<args.lr_decay_after>>, <<lr.values[1], lr.values[2]>>)
    ELSE IF lr.type = "float"
    THEN [lr EXCEPT !.values = <<lr.values[1] * hvd_size>>]
    ELSE lr

\* Lines 364-402: the callbacks handed to fit; the checkpoint callback only
\* on the first worker.
CallbacksEveryWorker(s) ==
    {"BroadcastGlobalVariablesCallback"}
       \cup (IF args.savecheckpoint_path # None THEN {"ModelCheckpoint"} ELSE {})
Callbacks(s) ==
    {"BroadcastGlobalVariablesCallback"}
       \cup (IF args.savecheckpoint_path # None /\ Val(s.running_on_first_worker)
             THEN {"ModelCheckpoint"} ELSE {})

\* Lines 353-409: optimizer, callbacks, steps per epoch, compile, and the
\* call of fit, which starts at epoch 0 with a new ModelCheckpoint callback.
run_compile(s) ==
    IF s.pc = "raised" THEN s
    ELSE LET lr == ScaledLearningRate(Val(s.learning_rate)) IN
         [Call(s, <<"compile", "fit">>) EXCEPT
             !.runs = @ + 1,
             !.epochs_done = 0,
             !.best = None,
             !.learning_rate = Some(lr),
             !.optimizer = Some([learning_rate |-> lr, distributed |-> TRUE]),
             !.callbacks = Callbacks(s),
             !.steps_per_epoch =
                 IF s.steps_per_epoch # None
                 THEN Some(Val(s.steps_per_epoch) \div hvd_size)
                 ELSE None]

\* ModelCheckpoint(monitor='val_loss', mode='min', save_best_only=True) at the
\* end of an epoch with validation loss v: whether it writes its file.
ModelCheckpointSaves(s, v) ==
    /\ "ModelCheckpoint" \in s.callbacks
    /\ (s.best = None \/ v < Val(s.best))

\* Lines 418-421: evaluation on the test generator.
run_evaluate(s) ==
    [Call(s, <<"evaluate">>) EXCEPT !.score = Some("score")]

\* Lines 438-439: the local name save_path is bound only when self.save_path
\* is None.
LocalSavePath == IF args.save_path = None THEN Some(DefaultSavePath) ELSE None

\* Lines 437-443: whether this process writes the final model.
SavesModel(s) == args.save /\ Val(s.running_on_first_worker)

\* Lines 437-443: the state of the process after the final save.
run_save(s) ==
    IF SavesModel(s)
    THEN IF LocalSavePath # None
         THEN Call(s, <<"save">>)
         ELSE Raise(s, ErrSavePathUnbound)
    ELSE s

File(kind, path, e, rank) == [kind |-> kind, path |-> path, epoch |-> e, by |-> rank]

-----------------------------------------------------------------------------
(* The process group: every process constructs a SupervisedTrainer *)

\* training_cgan is not running while the trainers are studied.
CganIdle ==
    /\ x_train_len = 0 /\ epochs = 0 /\ checkpoints_frequency = None
    /\ cpc = "idle" /\ cerr = None /\ epoch = 0 /\ i = 0
    /\ checkpoint_bound = FALSE /\ last_losses = None
    /\ gentotal = <<>> /\ gengan = <<>> /\ genl1 = <<>> /\ disc = <<>>
    /\ n_steps = 0 /\ snapshots = <<>> /\ losses_npy = None /\ returned = None
    /\ sampled = <<>> /\ weights = InitialWeights
    /\ generator_gradients = None /\ discriminator_gradients = None

\* The defaults of SupervisedTrainer.__init__ (lines 111-149), with one
\* channel of data and MaxFitEpochs epochs.
DefaultArgs ==
    [model |-> "resnet_spc", loss |-> "mae", batch_size |-> 64, device |-> "GPU",
     gpu_memory_growth |-> TRUE, data_channels |-> 1, predictors_train |-> None,
     topography |-> None, landocean |-> None, scale |-> 5,
     patch_size |-> Some(50), time_window |-> None, epochs |-> MaxFitEpochs,
     steps_per_epoch |-> None, learning_rate |-> FloatRate(1),
     lr_decay_after |-> 100000, save |-> FALSE, save_path |-> None,
     savecheckpoint_path |-> Some("./checkpoints/")]

\* Lines 245-274 of SupervisedTrainer.__init__: Trainer.__init__, then the
\* remaining attributes.
SupervisedTrainerInit(p) ==
    /\ self[p].pc = "new"
    /\ self' = [self EXCEPT ![p] =
                   Advance(StoreArguments(TrainerInit(self[p], p)), "constructed")]
    /\ UNCHANGED <<cgan_vars, args, hvd_size, n_devices, val_loss, files>>

\* Line 276: self.setup_datagen().
SetupDatagen(p) ==
    /\ self[p].pc = "constructed"
    /\ self' = [self EXCEPT ![p] = Advance(setup_datagen(self[p]), "data_ready")]
    /\ UNCHANGED <<cgan_vars, args, hvd_size, n_devices, val_loss, files>>

\* Line 277: self.setup_model().
SetupModel(p) ==
    /\ self[p].pc = "data_ready"
    /\ self' = [self EXCEPT ![p] = Advance(setup_model(self[p]), "model_ready")]
    /\ UNCHANGED <<cgan_vars, args, hvd_size, n_devices, val_loss, files>>

\* Line 278, self.run(), up to the call of fit (lines 353-409).
RunCompile(p) ==
    /\ self[p].pc = "model_ready"
    /\ self' = [self EXCEPT ![p] = Advance(run_compile(self[p]), "fitting")]
    /\ UNCHANGED <<cgan_vars, args, hvd_size, n_devices, val_loss, files>>

\* Process q has entered the epoch of fit that process p is in, or a later
\* one: it has an optimizer and takes part in the all-reduce of that epoch.
ReachedEpochOf(sq, sp) ==
    /\ sq.optimizer # None
    /\ \/ sq.runs > sp.runs
       \/ sq.runs = sp.runs /\ sq.epochs_done >= sp.epochs_done

\* One epoch of model.fit (lines 409-417) in process p.  The gradient
\* all-reduce of the distributed optimizer lets a process finish an epoch only
\* when every process of the group has reached it.  The replicas see the same
\* validation loss at the end of an epoch; the first to finish the epoch
\* determines it.  At the end of the epoch the callbacks run.  val_loss lists
\* the epochs of the successive calls of fit one after the other.
FitEpoch(p) ==
    /\ self[p].pc = "fitting"
    /\ self[p].epochs_done < args.epochs
    /\ \A q \in Ranks : ReachedEpochOf(self[q], self[p])
    /\ LET e == self[p].epochs_done + 1
           g == (self[p].runs - 1) * args.epochs + e IN
       \E v \in 1..MaxValLoss :
          /\ Len(val_loss) >= g => v = val_loss[g]
          /\ val_loss' = IF Len(val_loss) >= g THEN val_loss ELSE Append(val_loss, v)
          /\ IF ModelCheckpointSaves(self[p], v)
             THEN /\ files' = files \cup
                        {File("checkpoint", Val(args.savecheckpoint_path), e, p)}
                  /\ self' = [self EXCEPT ![p].epochs_done = e, ![p].best = Some(v)]
             ELSE /\ files' = files
                  /\ self' = [self EXCEPT ![p].epochs_done = e]
    /\ UNCHANGED <<cgan_vars, args, hvd_size, n_devices>>

\* Lines 418-435: fit has returned; the model is evaluated on the test split.
Evaluate(p) ==
    /\ self[p].pc = "fitting"
    /\ self[p].epochs_done = args.epochs
    /\ self' = [self EXCEPT ![p] = Advance(run_evaluate(self[p]), "evaluated")]
    /\ UNCHANGED <<cgan_vars, args, hvd_size, n_devices, val_loss, files>>

\* Lines 437-443: the final save, and the end of run and of __init__.
Save(p) ==
    /\ self[p].pc = "evaluated"
    /\ self' = [self EXCEPT ![p] = Advance(run_save(self[p]), "done")]
    /\ files' = IF SavesModel(self[p]) /\ LocalSavePath # None
                THEN files \cup {File("saved_model", Val(LocalSavePath), 0, p)}
                ELSE files
    /\ UNCHANGED <<cgan_vars, args, hvd_size, n_devices, val_loss>>

TrainerNext ==
    \/ \E p \in Ranks : SupervisedTrainerInit(p)
    \/ \E p \in Ranks : SetupDatagen(p)
    \/ \E p \in Ranks : SetupModel(p)
    \/ \E p \in Ranks : RunCompile(p)
    \/ \E p \in Ranks : FitEpoch(p)
    \/ \E p \in Ranks : Evaluate(p)
    \/ \E p \in Ranks : Save(p)

\* The group starts with no trainer constructed.
GroupInit ==
    /\ CganIdle
    /\ self = [p \in Ranks |-> NewTrainer]
    /\ val_loss = <<>>
    /\ files = {}

\* Configurations of the set-up stage: device, loss, architecture, patch size,
\* scale, time window, batch size and number of devices vary; one epoch.
SetupInit ==
    /\ hvd_size \in 1..MaxGroup
    /\ n_devices \in 1..MaxDevices
    /\ args \in {[DefaultArgs EXCEPT !.device = d, !.gpu_memory_growth = mg,
                     !.loss = l, !.model = m, !.scale = sc, !.patch_size = ps,
                     !.time_window = tw, !.batch_size = b, !.epochs = 1] :
                   d \in {"GPU", "CPU", "TPU"}, mg \in BOOLEAN,
                   l \in {"dssim_mae_mse", "huber"},
                   m \in MODELS \cup {"unet"},
                   sc \in 1..MaxScale,
                   ps \in {None} \cup {Some(x) : x \in 1..MaxPatch},
                   tw \in {None, Some(2)},
                   b \in 1..MaxBatch}
    /\ GroupInit

SpecSetup == SetupInit /\ [][TrainerNext]_vars

\* Configurations of the run stage: group size, device, learning rate,
\* epochs, checkpoint path and the save arguments vary.
RunInit ==
    /\ hvd_size \in 1..MaxGroup
    /\ n_devices = 1
    /\ args \in {[DefaultArgs EXCEPT !.device = d, !.learning_rate = lr,
                     !.epochs = n, !.save = sv, !.save_path = sp,
                     !.savecheckpoint_path = cp] :
                   d \in {"GPU", "CPU"},
                   lr \in {FloatRate(r) : r \in 1..MaxRate}
                            \cup {IntRate(r) : r \in 1..MaxRate}
                            \cup {TupleRate(MaxRate, r) : r \in 1..MaxRate},
                   n \in 1..MaxFitEpochs,
                   sv \in BOOLEAN,
                   sp \in {None, Some("/models/final/")},
                   cp \in {None, Some("./checkpoints/")}}
    /\ GroupInit

SpecRun == RunInit /\ [][TrainerNext]_vars

-----------------------------------------------------------------------------
(* The caller invokes the methods of a constructed trainer again *)

\* The constructor has returned the trainer to its caller, and the caller makes
\* one more method call.  An exception ends the process.
CallerHolds(s) == s.pc = "done" /\ s.recalls < MaxRecalls

\* trainer.setup_datagen(), lines 280-305; the method checks nothing about
\* the stage the trainer is in.
CallSetupDatagen(p) ==
    /\ CallerHolds(self[p])
    /\ self' = [self EXCEPT ![p] =
                   Advance(setup_datagen([self[p] EXCEPT !.recalls = @ + 1]), "done")]
    /\ UNCHANGED <<cgan_vars, args, hvd_size, n_devices, val_loss, files>>

\* trainer.setup_model(), lines 307-348.
CallSetupModel(p) ==
    /\ CallerHolds(self[p])
    /\ self' = [self EXCEPT ![p] =
                   Advance(setup_model([self[p] EXCEPT !.recalls = @ + 1]), "done")]
    /\ UNCHANGED <<cgan_vars, args, hvd_size, n_devices, val_loss, files>>

\* trainer.run(), lines 350-443, up to the call of fit; FitEpoch, Evaluate
\* and Save are the rest of it.
CallRun(p) ==
    /\ CallerHolds(self[p])
    /\ self' = [self EXCEPT ![p] =
                   Advance(run_compile([self[p] EXCEPT !.recalls = @ + 1]), "fitting")]
    /\ UNCHANGED <<cgan_vars, args, hvd_size, n_devices, val_loss, files>>

LifecycleNext ==
    \/ TrainerNext
    \/ \E p \in Ranks : CallSetupDatagen(p)
    \/ \E p \in Ranks : CallSetupModel(p)
    \/ \E p \in Ranks : CallRun(p)

\* Configurations of the lifecycle: group size, learning rate, steps per
\* epoch and a plain or a recurrent architecture vary; one epoch, nothing
\* saved at the end.
LifecycleInit ==
    /\ hvd_size \in 1..MaxGroup
    /\ n_devices = 1
    /\ args \in {[DefaultArgs EXCEPT !.learning_rate = lr, !.steps_per_epoch = st,
                     !.model = m[1], !.time_window = m[2], !.epochs = 1] :
                   lr \in {FloatRate(1), TupleRate(MaxRate, 1)},
                   st \in {None} \cup {Some(k) : k \in 1..MaxStepsPerEpoch},
                   m \in {<<"resnet_spc", None>>,
                          <<"recurrent_resnet_spc", Some(2)>>}}
    /\ GroupInit

SpecLifecycle == LifecycleInit /\ [][LifecycleNext]_vars

-----------------------------------------------------------------------------
(* Properties of SupervisedTrainer *)

\* The process has executed the final-save statements of run (lines 437-443).
SaveExecuted(s) == s.score # None /\ s.pc # "evaluated"

\* Trainer.__init__ has succeeded and setup_datagen has been executed.
SetupDatagenExecuted(s) == s.lossf # None /\ s.pc # "constructed"

\* The process ended in one of the configuration errors.
RaisedConfigurationError(s) ==
    s.pc = "raised" /\ Val(s.err) \in ConfigurationErrors

\* Nothing of the data, model and fitting stages exists in the process.
NothingBuilt(s) ==
    /\ s.ds_train = None /\ s.ds_val = None /\ s.ds_test = None
    /\ \A k \in 1..Len(s.calls) :
          s.calls[k] \notin {"DataGenerator", "compile", "fit", "evaluate", "save"} \cup MODELS
    /\ s.model # None => ~Val(s.model).built
    /\ s.optimizer = None
    /\ s.epochs_done = 0

\* C3: a first worker that completed fitting and evaluation with save=True has
\* saved the model at the save path (the caller's save_path when given,
\* './saved_model/' when save_path is None) and finished; with save=False it
\* saved no model.
C3_SavedAtSavePath ==
    \A p \in Ranks :
        (self[p].running_on_first_worker = Some(TRUE) /\ SaveExecuted(self[p])) =>
            LET path == IF args.save_path = None THEN DefaultSavePath
                        ELSE Val(args.save_path)
            IN IF args.save
               THEN /\ self[p].pc = "done"
                    /\ File("saved_model", path, 0, p) \in files
               ELSE \A f \in files : ~(f.kind = "saved_model" /\ f.by = p)

\* C4: once every process of the group has passed Trainer construction,
\* exactly one of them has running_on_first_worker = True, for either device.
C4_ExactlyOneFirstWorker ==
    (hvd_size >= 1 /\ \A p \in Ranks : self[p].running_on_first_worker # None) =>
        Cardinality({p \in Ranks : self[p].running_on_first_worker = Some(TRUE)}) = 1

\* C5: the checkpoint callback is registered only in a process whose
\* running_on_first_worker flag is True; every checkpoint file and every saved
\* model was written by such a process; and a checkpoint file of epoch e was
\* written at the end of epoch e, whose validation loss was the best (lowest)
\* of the epochs seen so far.
C5_OnlyFirstWorkerWrites ==
    /\ \A p \in Ranks :
          "ModelCheckpoint" \in self[p].callbacks =>
              self[p].running_on_first_worker = Some(TRUE)
    /\ \A f \in files :
          /\ self[f.by].running_on_first_worker = Some(TRUE)
          /\ f.kind = "checkpoint" =>
                /\ f.epoch \in 1..self[f.by].epochs_done
                /\ \A e \in 1..f.epoch : val_loss[f.epoch] <= val_loss[e]

\* C5 witness: in a group of two on GPU, the worker that is not the first has
\* finished a saving run without writing anything, while the first worker
\* wrote the checkpoint of epoch 1, skipped epoch 2 (not the best validation
\* loss) and saved the model.
C5_Witness ==
    /\ hvd_size = 2
    /\ args.device = "GPU" /\ args.save /\ args.savecheckpoint_path # None
    /\ self[1].running_on_first_worker = Some(FALSE)
    /\ self[1].pc = "done"
    /\ self[0].pc = "done"
    /\ Len(val_loss) = 2 /\ val_loss[2] >= val_loss[1]
    /\ {f.epoch : f \in {g \in files : g.kind = "checkpoint"}} = {1}
    /\ \E f \in files : f.kind = "saved_model" /\ f.by = 0
    /\ \A f \in files : f.by = 0

\* C6: the optimizer gets the rate r*g for every scalar learning rate r,
\* whatever its numeric type, and for a two-element rate the unscaled
\* step-threshold schedule (initial, decayed) switching at lr_decay_after.
C6_ScalarRateScaled ==
    \A p \in Ranks :
        self[p].optimizer # None =>
            LET lr == args.learning_rate
                applied == Val(self[p].optimizer).learning_rate
            IN IF lr.type = "tuple"
               THEN applied = PiecewiseConstantDecay(<<args.lr_decay_after>>, lr.values)
               ELSE applied.values = <<lr.values[1] * hvd_size>>

\* C7 as stated: when a configuration error is raised, the process has
\* initialized no distributed context, configured no GPU memory growth or
\* visibility, and built no data generator.
C7_ErrorsBeforeAnyResource ==
    \A p \in Ranks :
        RaisedConfigurationError(self[p]) =>
            \A k \in 1..Len(self[p].calls) :
                self[p].calls[k] \notin {"hvd.init", "set_gpu_memory_growth",
                                         "set_visible_gpus", "DataGenerator"}

\* C7 amended: when a configuration error is raised, no data generator has
\* been built and no model instantiated, compiled or fitted; hvd.init has
\* already been called; the unrecognized-device error is raised before any
\* device is configured, and every other configuration error after the
\* devices were configured and listed.
C7_ErrorsBeforeDataAndModel ==
    \A p \in Ranks :
        RaisedConfigurationError(self[p]) =>
            /\ NothingBuilt(self[p])
            /\ self[p].calls =
                  IF self[p].err = Some(ErrDevice)
                  THEN <<"hvd.init">>
                  ELSE <<"hvd.init">> \o DeviceCalls

\* C7 witness: a GPU process raised the patch_size error after hvd.init and
\* after memory growth and visibility were configured.
C7_Witness ==
    \E p \in Ranks :
        /\ self[p].err = Some(ErrPatchSize)
        /\ args.device = "GPU"
        /\ self[p].calls = <<"hvd.init", "set_gpu_memory_growth",
                             "set_visible_gpus", "list_devices">>

\* C8: with patch_size % scale # 0, no data generator is created, no model
\* instantiated and no fitting started, and a process that gets to
\* setup_datagen raises the patch_size error there; the patch_size error is
\* raised only when patch_size is not a multiple of scale.
C8_PatchSizeDivisibility ==
    \A p \in Ranks :
        LET bad == args.patch_size # None /\ Val(args.patch_size) % args.scale # 0 IN
        /\ bad => /\ self[p].pc \in {"new", "constructed", "raised"}
                  /\ NothingBuilt(self[p])
        /\ (bad /\ SetupDatagenExecuted(self[p])) =>
              /\ self[p].pc = "raised"
              /\ self[p].err = Some(ErrPatchSize)
        /\ self[p].err = Some(ErrPatchSize) => bad

\* C8 witness: setup_datagen raised for patch_size = 3 and scale = 2.
C8_Witness ==
    \E p \in Ranks :
        /\ args.patch_size = Some(3) /\ args.scale = 2
        /\ self[p].pc = "raised"
        /\ self[p].err = Some(ErrPatchSize)
        /\ self[p].lossf # None

\* C9: in a process that gets to setup_datagen, a recurrent architecture
\* without time_window and a non-recurrent one with time_window raise a
\* configuration error (the time_window one when patch_size passed its
\* check); the two other combinations raise no time_window error and, when
\* patch_size passed its check, the data generators are built.
C9_TimeWindowIffRecurrent ==
    \A p \in Ranks :
        SetupDatagenExecuted(self[p]) =>
            LET rec == args.model \in {"recurrent_resnet_spc", "recurrent_resnet_rc",
                                       "recurrent_resnet_bi"}
                tw == args.time_window # None
                patch_ok == args.patch_size = None
                               \/ Val(args.patch_size) % args.scale = 0
            IN /\ (rec /\ ~tw) =>
                     /\ RaisedConfigurationError(self[p])
                     /\ patch_ok => self[p].err = Some(ErrTimeWindowMissing)
               /\ (~rec /\ tw) =>
                     /\ RaisedConfigurationError(self[p])
                     /\ patch_ok => self[p].err = Some(ErrTimeWindowUnsupported)
               /\ (rec <=> tw) =>
                     /\ self[p].err \notin {Some(ErrTimeWindowMissing),
                                            Some(ErrTimeWindowUnsupported)}
                     /\ patch_ok => self[p].pc # "raised" /\ self[p].ds_train # None

\* C9 witness: recurrent_resnet_bi without time_window raised in setup_datagen.
C9_Witness ==
    \E p \in Ranks :
        /\ args.model = "recurrent_resnet_bi"
        /\ args.time_window = None
        /\ self[p].err = Some(ErrTimeWindowMissing)

\* C10: the global batch size is batch_size times the number of devices
\* listed, and it is the batch size given to the train, validation and test
\* data generators.
C10_GlobalBatchSize ==
    \A p \in Ranks :
        /\ self[p].global_batch_size # None =>
              Val(self[p].global_batch_size) = args.batch_size * n_devices
        /\ \A ds \in {self[p].ds_train, self[p].ds_val, self[p].ds_test} :
              ds # None => Val(ds).params.batch_size = args.batch_size * n_devices

\* C10 witness: batch_size 2 on 2 devices, generators built with batch size 4.
C10_Witness ==
    \E p \in Ranks :
        /\ args.batch_size = 2 /\ n_devices = 2
        /\ self[p].global_batch_size = Some(4)
        /\ self[p].ds_train # None /\ self[p].ds_val # None
        /\ self[p].ds_test # None
        /\ Val(self[p].ds_test).params.batch_size = 4


\* The number of times the call `name` appears in the log of a process.
Count(calls, name) == Cardinality({k \in 1..Len(calls) : calls[k] = name})

\* C12: a trainer goes through its stages in order: the network is built
\* only after the data generators exist, compile and fit only after the
\* network is built, evaluation only after fitting has completed and exactly
\* once; and once the trainer is DONE no method takes effect again: the data
\* generators are created once, the network is instantiated once, and the
\* model is compiled, fitted and evaluated once.
C12_LifecycleOrder ==
    \A p \in Ranks :
        LET s == self[p] IN
        /\ (s.model # None /\ Val(s.model).built) => s.ds_train # None
        /\ s.optimizer # None => (s.model # None /\ Val(s.model).built)
        /\ s.pc \in {"evaluated", "done"} =>
              (s.score # None /\ s.epochs_done = args.epochs)
        /\ Count(s.calls, "DataGenerator") <= 3
        /\ Cardinality({k \in 1..Len(s.calls) : s.calls[k] \in MODELS}) <= 1
        /\ Count(s.calls, "compile") <= 1
        /\ Count(s.calls, "fit") <= 1
        /\ Count(s.calls, "evaluate") <= 1

\* The hyperparameters a trainer holds.
Hyperparameters(s) ==
    [learning_rate |-> s.learning_rate, steps_per_epoch |-> s.steps_per_epoch,
     epochs |-> args.epochs, batch_size |-> args.batch_size,
     global_batch_size |-> s.global_batch_size, model |-> s.model]

\* The constructor of the trainer has returned.
ConstructionFinished(s) == s.pc = "done" \/ s.recalls > 0

\* C13: once the construction of a trainer has finished, no step changes its
\* learning rate, steps_per_epoch, epoch count, batch sizes or architecture.
C13_HyperparametersImmutable ==
    [][\A p \in Ranks :
          ConstructionFinished(self[p]) =>
              Hyperparameters(self'[p]) = Hyperparameters(self[p])]_vars

=============================================================================
